---- MODULE Spec2Model ----
(***************************************************************************)
(* State-machine model of the Ecoverse activity engine:                    *)
(*   - WorkplaceSafetyEngine   (src/src/workplace/workplace_safety.py)     *)
(*   - ContextEngine           (src/src/integration/context_engine.py)     *)
(*   - BaselineDriftDetector   (src/src/elderly/baseline_drift.py)         *)
(*   - MotionBiography         (src/src/elderly/motion_biography.py)       *)
(*   - push_to_firebase        (src/src/utils/firebase_client.py)          *)
(***************************************************************************)
EXTENDS Integers, Sequences, FiniteSets, TLC

VARIABLES
    user_violation_count,   \* WorkplaceSafetyEngine.user_violation_count
    violations,             \* WorkplaceSafetyEngine.violations
    workplace_violations,   \* ContextEngine.workplace_violations
    daily_events,           \* BaselineDriftDetector.daily_events
    daily_data,             \* MotionBiography.daily_data
    ingested,               \* history: every event given to add_event, in call order
    window,                 \* lists gathered by the last day-range read
    baseline,               \* baseline metrics handed to detect_drift
    current,                \* current-week metrics handed to detect_drift
    recent_events,          \* the event list handed to the RiskScorer
    risk_history,           \* RiskSnapshot list handed to generate_alert
    drift_result,           \* DriftResult handed to generate_alert
    threads,                \* per user: the evaluation in flight, step by step
    call,                   \* the last call: operation name and the ids it was given
    result                  \* value returned (or exception raised) by the last call

vars == <<user_violation_count, violations, workplace_violations,
          daily_events, daily_data, ingested, window, baseline, current,
          recent_events, risk_history, drift_result, threads, call, result>>

(***************************************************************************)
(* Bounds of the model                                                     *)
(***************************************************************************)
MaxLog == 4
MaxCount == 7
MaxPairs == 7

(***************************************************************************)
(* Input domains                                                           *)
(***************************************************************************)
Users == {"EMP_101", "EMP_102"}
PairUser == "EMP_101"
Zones == {"Restricted_Zone", "Safe_Zone", "Hazard_Zone"}
NoZone == "None"
Activities == {"Walk", "Static", "Transitions", "Exercise", "Stairs"}
ELDERLY == "elderly"
EMPLOYEE == "employee"
REHAB == "rehab"
Roles == {ELDERLY, EMPLOYEE, REHAB, "visitor"}
\* fall_prob, in hundredths
FallProbs == {30, 55, 60, 72}

\* event timestamps are ticks; a calendar day has TicksPerDay of them
TicksPerDay == 2
BaselineDays == 7
WeekDays == 7
MaxEvents == 2
MaxMetric == 4
EventTicks == {10, 11, 13, 14}
EventActivities == {"Walk", "Static", "Transitions"}
FallSamples == {<<30, FALSE>>, <<55, TRUE>>}
StartDays == {0, 7}
EndDays == {6, 13}
SummaryDays == {5, 6}
ElderUser == "ELDER_001"
NoMetrics == [walk |-> -1, transitions |-> -1, static |-> -1]
MetricValues == 0..MaxMetric
Metrics == [walk : MetricValues, transitions : MetricValues, static : MetricValues]

\* inputs of the RiskScorer
MaxRiskLen == 3
RiskEvent(activity, fall_prob, is_fall) ==
    [timestamp |-> 10, activity |-> activity, fall_prob |-> fall_prob, is_fall |-> is_fall]
RiskSamples ==
    {RiskEvent("Walk", 30, FALSE), RiskEvent("Static", 45, FALSE),
     RiskEvent("Static", 70, FALSE), RiskEvent("Transitions", 55, TRUE),
     RiskEvent("Exercise", 72, TRUE), RiskEvent("Stairs", 69, FALSE)}
Rep(e, n) == [i \in 1..n |-> e]
\* windows of 14 events: 3 falls, 4 near-falls, 3 Transitions, 7 Static
ScenarioB ==
    {Rep(RiskEvent("Static", 10, FALSE), 7) \o Rep(RiskEvent("Transitions", 90, TRUE), 3)
        \o Rep(RiskEvent("Walk", 55, FALSE), 4),
     Rep(RiskEvent("Static", 45, FALSE), 4) \o Rep(RiskEvent("Walk", 90, TRUE), 3)
        \o Rep(RiskEvent("Static", 30, FALSE), 3) \o Rep(RiskEvent("Transitions", 70, FALSE), 3)
        \o Rep(RiskEvent("Exercise", 10, FALSE), 1),
     Rep(RiskEvent("Walk", 69, FALSE), 2) \o Rep(RiskEvent("Static", 10, FALSE), 3)
        \o Rep(RiskEvent("Transitions", 90, TRUE), 3) \o Rep(RiskEvent("Static", 20, FALSE), 4)
        \o Rep(RiskEvent("Stairs", 45, FALSE), 2)}
RiskInputs == UNION {[1..n -> RiskSamples] : n \in 0..MaxRiskLen} \cup ScenarioB

NoDrift == [drift_level |-> "None", alerts |-> <<>>]
\* one thread of evaluations per user; tmp is the counter value read by the
\* `+= 1` in progress, triggered counts the violations the user's own events
\* have triggered in each engine
MaxConcurrent == 2
IdleThread == [pc |-> "idle", engine |-> "none", zone |-> "none", activity |-> "none",
               tmp |-> 0, triggered |-> [ws |-> 0, ce |-> 0]]
ConcurrentEvents ==
    {<<"Restricted_Zone", "Walk">>, <<"Safe_Zone", "Exercise">>, <<"Safe_Zone", "Walk">>}

UtcNow == "utc_now"
SERVER_TIMESTAMP == "SERVER_TIMESTAMP"
\* inputs of the CaregiverAlertGenerator
MaxHistory == 4
ScoreSamples == {4200, 5500, 6800, 7000, 7100}
RiskSnapshot(score) == [timestamp |-> UtcNow, fall_risk_score |-> score]
Histories == UNION {[1..n -> {RiskSnapshot(s) : s \in ScoreSamples}] : n \in 0..MaxHistory}
DriftLevels == {"Low", "Medium", "High"}
DriftAlertLists ==
    {<<"No significant mobility drift detected.">>,
     <<"Walking activity has declined compared to baseline.">>,
     <<"Walking activity has declined compared to baseline.",
       "Prolonged inactivity compared to baseline.">>,
     <<"Walking activity has declined compared to baseline.",
       "Increase in unstable transitions detected.",
       "Prolonged inactivity compared to baseline.">>}
DriftResults == [drift_level : DriftLevels, alerts : DriftAlertLists]
NoScore == -1

None == [domain |-> "None"]
Raised == [domain |-> "raised"]

Max(a, b) == IF a >= b THEN a ELSE b
Min(a, b) == IF a <= b THEN a ELSE b

(***************************************************************************)
(* push_to_firebase: overwrites the timestamp of the dict it is given,     *)
(* then adds it to the collection; the add raises when the sink is down.   *)
(***************************************************************************)
push_to_firebase(data) == [data EXCEPT !.timestamp = SERVER_TIMESTAMP]

\* what a caller that pushes `data` and then returns it hands back
PushAndReturn(data, sink_ok) == IF sink_ok THEN push_to_firebase(data) ELSE Raised

(***************************************************************************)
(* WorkplaceSafetyEngine                                                   *)
(***************************************************************************)
Violation(user_id, violation_type, severity) ==
    [user_id |-> user_id, violation_type |-> violation_type,
     severity |-> severity, timestamp |-> UtcNow]

\* engine state threaded through the statements of evaluate_event;
\* exc is TRUE once push_to_firebase has raised
EngineState == [count |-> user_violation_count, log |-> violations, exc |-> FALSE]

IncrementBroken(count, user_id) == [count EXCEPT ![user_id] = IF @ = 0 THEN 1 ELSE @ - 1]
Increment(count, user_id) == [count EXCEPT ![user_id] = @ + 1]

AppendViolationBroken(log, v) == <<v>> \o log
AppendViolation(log, v) == Append(log, v)

_log_violation(s, user_id, violation_type, severity, sink_ok) ==
    [count |-> Increment(s.count, user_id),
     log   |-> AppendViolation(s.log, Violation(user_id, violation_type, severity)),
     exc   |-> ~sink_ok]

Rule1(s, user, zone, activity, sink_ok) ==
    IF ~s.exc /\ zone = "Restricted_Zone" /\ activity = "Walk"
    THEN _log_violation(s, user, "Unauthorized entry into restricted zone", "High", sink_ok)
    ELSE s

Rule2Broken(s, user, zone, activity, sink_ok) ==
    IF ~s.exc /\ activity \in {"Exercise", "Static"}
    THEN _log_violation(s, user, "Overexertion detected", "Medium", sink_ok)
    ELSE s
Rule2(s, user, zone, activity, sink_ok) ==
    IF ~s.exc /\ activity = "Exercise"
    THEN _log_violation(s, user, "Overexertion detected", "Medium", sink_ok)
    ELSE s

Rule3(s, user, zone, activity, sink_ok) ==
    IF ~s.exc /\ activity = "Static"
    THEN _log_violation(s, user, "Prolonged inactivity (collapse risk)", "Medium", sink_ok)
    ELSE s

UserIdGuardBroken(zone_user, activity_user) == TRUE
UserIdGuard(zone_user, activity_user) == zone_user = activity_user

evaluate_event(s, zone_user, zone, activity_user, activity, sink_ok) ==
    IF ~UserIdGuard(zone_user, activity_user)
    THEN s
    ELSE Rule3(Rule2(Rule1(s, zone_user, zone, activity, sink_ok),
                     zone_user, zone, activity, sink_ok),
               zone_user, zone, activity, sink_ok)

EscalationOfBroken(count) ==
    IF count >= 5 THEN "Admin Escalation"
    ELSE IF count > 3 THEN "Supervisor Alert"
    ELSE IF count >= 1 THEN "Warning"
    ELSE "No Action"
EscalationOf(count) ==
    IF count >= 5 THEN "Admin Escalation"
    ELSE IF count >= 3 THEN "Supervisor Alert"
    ELSE IF count >= 1 THEN "Warning"
    ELSE "No Action"

get_escalation_level(user_id) == EscalationOf(user_violation_count[user_id])

SafetyScoreOfBroken(count) == 100 - (count * 15)
SafetyScoreOf(count) == Max(100 - (count * 15), 0)

compute_safety_score(user_id) == SafetyScoreOf(user_violation_count[user_id])

zone_risk_level(zone) ==
    IF zone = "Restricted_Zone" THEN "High"
    ELSE IF zone = "Hazard_Zone" THEN "Medium"
    ELSE "Low"

push_dashboard_metrics(user_id, zone) ==
    [domain |-> "dashboard",
     user_id |-> user_id,
     violation_count |-> user_violation_count[user_id],
     escalation_level |-> get_escalation_level(user_id),
     safety_score |-> compute_safety_score(user_id),
     zone_risk_level |-> zone_risk_level(zone),
     timestamp |-> UtcNow]

(***************************************************************************)
(* ContextEngine                                                           *)
(***************************************************************************)
_escalation_level(count) ==
    IF count >= 5 THEN "Admin Escalation"
    ELSE IF count >= 3 THEN "Supervisor Alert"
    ELSE IF count >= 1 THEN "Warning"
    ELSE "No Action"

\* state threaded through the statements of _workplace_logic
RouterState == [count |-> workplace_violations, found |-> <<>>]

Flag(s, user_id, text) ==
    [count |-> Increment(s.count, user_id), found |-> Append(s.found, text)]

WpRestricted(s, user_id, zone, activity) ==
    IF zone # NoZone /\ zone = "Restricted_Zone" /\ activity = "Walk"
    THEN Flag(s, user_id, "Restricted zone entry") ELSE s

WpHazard(s, user_id, zone, activity) ==
    IF zone # NoZone /\ zone = "Hazard_Zone" /\ activity = "Stairs"
    THEN Flag(s, user_id, "Hazard zone stair activity") ELSE s

WpExercise(s, user_id, activity) ==
    IF activity = "Exercise" THEN Flag(s, user_id, "Overexertion risk") ELSE s

WpStatic(s, user_id, activity) ==
    IF activity = "Static" THEN Flag(s, user_id, "Possible collapse risk") ELSE s

WpTransitions(s, user_id, activity) ==
    IF activity = "Transitions" THEN Flag(s, user_id, "Unsafe posture detected") ELSE s

WorkplaceRules(s, user_id, zone, activity) ==
    WpTransitions(
      WpStatic(
        WpExercise(
          WpHazard(WpRestricted(s, user_id, zone, activity), user_id, zone, activity),
          user_id, activity),
        user_id, activity),
      user_id, activity)

_workplace_logic(s, user_id, activity, zone) ==
    [domain |-> "workplace",
     timestamp |-> UtcNow,
     user_id |-> user_id,
     activity |-> activity,
     zone |-> IF zone # NoZone THEN zone ELSE "Unknown",
     violations |-> s.found,
     violation_count |-> s.count[user_id],
     escalation_level |-> _escalation_level(s.count[user_id]),
     safety_score |-> Max(100 - (s.count[user_id] * 15), 0),
     output |-> "Warning / Supervisor / Admin escalation"]

ElderlyInsights(activity, fall_prob) ==
    (IF activity = "Walk" THEN <<"Walking activity observed">> ELSE <<>>)
    \o (IF activity = "Transitions" THEN <<"Instability detected during posture change">> ELSE <<>>)
    \o (IF activity = "Static" THEN <<"Prolonged inactivity detected">> ELSE <<>>)
    \o (IF activity = "Exercise" THEN <<"Fatigue risk detected">> ELSE <<>>)
    \o (IF activity = "Stairs" THEN <<"Stair usage increases fall risk">> ELSE <<>>)
    \o (IF fall_prob > 60 THEN <<"High fall risk detected">> ELSE <<>>)

ElderlyContributors(activity, fall_prob) ==
    (IF activity = "Transitions" THEN <<"transition_instability">> ELSE <<>>)
    \o (IF activity = "Static" THEN <<"inactivity">> ELSE <<>>)
    \o (IF activity = "Stairs" THEN <<"stairs_risk">> ELSE <<>>)
    \o (IF fall_prob > 60 THEN <<"fall_risk">> ELSE <<>>)

_elderly_logic(user_id, activity, fall_prob) ==
    [domain |-> "elderly",
     timestamp |-> UtcNow,
     user_id |-> user_id,
     activity |-> activity,
     fall_probability |-> fall_prob,
     insights |-> ElderlyInsights(activity, fall_prob),
     risk_contributors |-> ElderlyContributors(activity, fall_prob),
     output |-> "Caregiver alert / preventive recommendation"]

_rehab_logic(user_id, activity) ==
    [domain |-> "rehab",
     timestamp |-> UtcNow,
     user_id |-> user_id,
     activity |-> activity,
     status |-> "Tracked for rehabilitation analysis"]

UnknownRecord ==
    [domain |-> "unknown", timestamp |-> UtcNow, message |-> "Unknown user role"]

\* counters after route_event
route_event_count(role, user_id, activity, zone) ==
    IF role = EMPLOYEE
    THEN WorkplaceRules(RouterState, user_id, zone, activity).count
    ELSE workplace_violations

\* record built by route_event before it is pushed
route_event_record(role, user_id, activity, fall_prob, zone) ==
    IF role = ELDERLY THEN _elderly_logic(user_id, activity, fall_prob)
    ELSE IF role = EMPLOYEE
         THEN _workplace_logic(WorkplaceRules(RouterState, user_id, zone, activity),
                               user_id, activity, zone)
    ELSE IF role = REHAB THEN _rehab_logic(user_id, activity)
    ELSE UnknownRecord

(***************************************************************************)
(* Event stores: BaselineDriftDetector.daily_events and                    *)
(* MotionBiography.daily_data, dicts from a date to the list of its events *)
(***************************************************************************)
\* event.timestamp.date(): timestamps are ticks, TicksPerDay of them a day
DateOfBroken(timestamp) == timestamp
DateOf(timestamp) == timestamp \div TicksPerDay

\* defaultdict(list)[day].append(event)
FileEventBroken(store, day, event) ==
    IF day \in DOMAIN store
    THEN [store EXCEPT ![day] = <<event>> \o @]
    ELSE store @@ (day :> <<event>>)
FileEvent(store, day, event) ==
    IF day \in DOMAIN store
    THEN [store EXCEPT ![day] = Append(@, event)]
    ELSE store @@ (day :> <<event>>)

\* number of events held by a store
StoredEvents(store) ==
    LET RECURSIVE Sum(_)
        Sum(D) == IF D = {} THEN 0
                  ELSE LET d == CHOOSE x \in D : TRUE IN Len(store[d]) + Sum(D \ {d})
    IN Sum(DOMAIN store)

\* store.get(day, [])
Bucket(store, day) == IF day \in DOMAIN store THEN store[day] ELSE <<>>

\* for i in range(n): events.extend(store.get(start_day + timedelta(days=i), []))
RECURSIVE GatherForwardBroken(_, _, _)
GatherForwardBroken(store, start_day, n) ==
    IF n = 0 THEN <<>>
    ELSE Bucket(store, start_day + n - 1) \o GatherForwardBroken(store, start_day, n - 1)
RECURSIVE GatherForward(_, _, _)
GatherForward(store, start_day, n) ==
    IF n = 0 THEN <<>>
    ELSE GatherForward(store, start_day, n - 1) \o Bucket(store, start_day + n - 1)

\* for i in range(n): events.extend(store.get(end_day - timedelta(days=i), []))
RECURSIVE GatherBackward(_, _, _)
GatherBackward(store, end_day, n) ==
    IF n = 0 THEN <<>>
    ELSE Bucket(store, end_day) \o GatherBackward(store, end_day - 1, n - 1)

\* sum(pred(e) for e in events)
CountActivity(events, activity) ==
    Cardinality({i \in 1..Len(events) : events[i].activity = activity})
IsNearFall(e) == 45 <= e.fall_prob /\ e.fall_prob < 70
CountNearFalls(events) == Cardinality({i \in 1..Len(events) : IsNearFall(events[i])})
CountFalls(events) == Cardinality({i \in 1..Len(events) : events[i].is_fall})

\* round(num / den) to the nearest integer, den > 0
RoundDiv(num, den) == (2 * num + den) \div (2 * den)

(***************************************************************************)
(* BaselineDriftDetector                                                   *)
(***************************************************************************)
DriftEvent(e) == [timestamp |-> e.timestamp, activity |-> e.activity]

_extract_metrics(events) ==
    IF events = <<>>
    THEN [walk |-> 0, transitions |-> 0, static |-> 0]
    ELSE [walk |-> CountActivity(events, "Walk"),
          transitions |-> CountActivity(events, "Transitions"),
          static |-> CountActivity(events, "Static")]

compute_baseline_events(start_day) == GatherForward(daily_events, start_day, BaselineDays)
compute_baseline(start_day) == _extract_metrics(compute_baseline_events(start_day))

compute_current_week_events(end_day) == GatherBackward(daily_events, end_day, WeekDays)
compute_current_week(end_day) == _extract_metrics(compute_current_week_events(end_day))

_map_drift_levelBroken(score) ==
    IF score = 0 THEN "Low" ELSE IF score = 1 THEN "Medium"
    ELSE IF score = 2 THEN "Medium" ELSE "High"
_map_drift_level(score) ==
    IF score = 0 THEN "Low" ELSE IF score = 1 THEN "Medium" ELSE "High"

\* current["walk"] < baseline["walk"] * 0.8
WalkDeclinedBroken(b, c) == 10 * c.walk <= 8 * b.walk
WalkDeclined(b, c) == 10 * c.walk < 8 * b.walk
\* current["transitions"] > baseline["transitions"] * 1.2
TransitionsIncreased(b, c) == 10 * c.transitions > 12 * b.transitions
\* current["static"] > baseline["static"] * 1.25
InactivityIncreased(b, c) == 100 * c.static > 125 * b.static

WalkAlert == "Walking activity has declined compared to baseline."
TransitionAlert == "Increase in unstable transitions detected."
InactivityAlert == "Prolonged inactivity compared to baseline."
NoDriftAlert == "No significant mobility drift detected."

DriftHit(d, alert) == [drift_score |-> d.drift_score + 1, alerts |-> Append(d.alerts, alert)]

DriftRulesBroken(b, c) ==
    LET d0 == [drift_score |-> 0, alerts |-> <<>>]
        d1 == IF WalkDeclined(b, c) THEN DriftHit(d0, WalkAlert) ELSE d0
        d2 == IF InactivityIncreased(b, c) THEN DriftHit(d1, InactivityAlert) ELSE d1
        d3 == IF TransitionsIncreased(b, c) THEN DriftHit(d2, TransitionAlert) ELSE d2
    IN d3
DriftRules(b, c) ==
    LET d0 == [drift_score |-> 0, alerts |-> <<>>]
        d1 == IF WalkDeclined(b, c) THEN DriftHit(d0, WalkAlert) ELSE d0
        d2 == IF TransitionsIncreased(b, c) THEN DriftHit(d1, TransitionAlert) ELSE d1
        d3 == IF InactivityIncreased(b, c) THEN DriftHit(d2, InactivityAlert) ELSE d2
    IN d3

detect_drift(b, c) ==
    LET d == DriftRules(b, c)
    IN [domain |-> "drift",
        drift_score |-> d.drift_score,
        drift_level |-> _map_drift_level(d.drift_score),
        alerts |-> IF d.alerts = <<>> THEN <<NoDriftAlert>> ELSE d.alerts]

(***************************************************************************)
(* MotionBiography                                                         *)
(***************************************************************************)
_compute_fall_risk(events) ==
    LET total == Len(events)
    IN IF total = 0 THEN 0
       ELSE Min(RoundDiv(4000 * CountFalls(events) + 3000 * CountNearFalls(events)
                         + 2000 * CountActivity(events, "Transitions")
                         + 1000 * CountActivity(events, "Static"), total),
                10000)

generate_daily_summary(user_id, day) ==
    LET events == Bucket(daily_data, day)
    IN IF events = <<>> THEN None
       ELSE [domain |-> "daily_summary",
             user_id |-> user_id,
             date |-> day,
             walking_duration |-> CountActivity(events, "Walk"),
             transition_count |-> CountActivity(events, "Transitions"),
             near_falls |-> CountNearFalls(events),
             inactivity_time |-> CountActivity(events, "Static"),
             fall_risk_score |-> _compute_fall_risk(events),
             timestamp |-> UtcNow]

WeekMetrics(events) ==
    IF events = <<>>
    THEN [walk |-> 0, near_fall |-> 0, inactivity |-> 0]
    ELSE [walk |-> CountActivity(events, "Walk"),
          near_fall |-> CountNearFalls(events),
          inactivity |-> CountActivity(events, "Static")]

\* round(((curr - prev) / prev) * 100, 2), in hundredths
pct_change(curr, prev) == IF prev = 0 THEN 0 ELSE RoundDiv((curr - prev) * 10000, prev)

_compare_weeks(this_week, last_week) ==
    LET curr == WeekMetrics(this_week)
        prev == WeekMetrics(last_week)
    IN [walk_change |-> pct_change(curr.walk, prev.walk),
        near_fall_change |-> pct_change(curr.near_fall, prev.near_fall),
        inactivity_change |-> pct_change(curr.inactivity, prev.inactivity)]

generate_narrative(weekly_trend) ==
    LET n == (IF weekly_trend.walk_change <= -2000
              THEN <<"Walking duration reduced significantly this week.">> ELSE <<>>)
             \o (IF weekly_trend.near_fall_change >= 2000
                 THEN <<"Near-fall frequency has increased over recent days.">> ELSE <<>>)
             \o (IF weekly_trend.inactivity_change >= 2500
                 THEN <<"Prolonged inactivity observed. Mobility may be declining.">>
                 ELSE <<>>)
    IN IF n = <<>> THEN <<"Mobility stable. No immediate intervention required.">> ELSE n

this_week_events(end_day) == GatherBackward(daily_data, end_day, WeekDays)
last_week_events(end_day) == GatherBackward(daily_data, end_day - WeekDays, WeekDays)

generate_weekly_trend(user_id, end_day) ==
    LET trend == _compare_weeks(this_week_events(end_day), last_week_events(end_day))
    IN [domain |-> "weekly_trend",
        user_id |-> user_id,
        week_ending |-> end_day,
        trend_metrics |-> trend,
        narratives |-> generate_narrative(trend),
        timestamp |-> UtcNow]

(***************************************************************************)
(* RiskScorer (src/src/risk/risk_scoring.py); scores are in hundredths     *)
(***************************************************************************)
\* int(sum(e.activity == "Static" ...) > total * 0.6)
ProlongedInactivityBroken(events) ==
    IF 10 * CountActivity(events, "Static") >= 5 * Len(events) THEN 1 ELSE 0
ProlongedInactivity(events) ==
    IF 10 * CountActivity(events, "Static") > 6 * Len(events) THEN 1 ELSE 0

compute_fall_risk(events) ==
    LET total == Len(events)
    IN IF events = <<>> THEN 0
       ELSE Min(RoundDiv(4000 * CountFalls(events) + 3000 * CountNearFalls(events)
                         + 2000 * CountActivity(events, "Transitions")
                         + 1000 * ProlongedInactivity(events) * total, total),
                10000)

compute_safety_risk(events) ==
    LET total == Len(events)
    IN IF events = <<>> THEN 0
       ELSE Min(RoundDiv(10000 * (CountActivity(events, "Exercise")
                                  + CountActivity(events, "Transitions")), total),
                10000)

compute_rehab_progressBroken(events) ==
    LET total == Max(Len(events), 1)
    IN RoundDiv(5000 * CountActivity(events, "Walk")
                + 3000 * (total - CountActivity(events, "Transitions"))
                + 2000 * (total - CountFalls(events)), total)
compute_rehab_progress(events) ==
    LET total == Len(events)
    IN IF events = <<>> THEN 0
       ELSE RoundDiv(5000 * CountActivity(events, "Walk")
                     + 3000 * (total - CountActivity(events, "Transitions"))
                     + 2000 * (total - CountFalls(events)), total)

(***************************************************************************)
(* CaregiverAlertGenerator (src/src/elderly/caregiver_alerts.py)           *)
(***************************************************************************)
_analyze_risk_trendBroken(history) ==
    IF Len(history) < 3 THEN "Stable"
    ELSE LET recent == SubSeq(history, 1, 3)
             scores == [i \in 1..3 |-> recent[i].fall_risk_score]
         IN IF scores[3] > 7000 THEN "High"
            ELSE IF scores[1] < scores[2] /\ scores[2] < scores[3] THEN "Increasing"
            ELSE "Stable"
_analyze_risk_trend(history) ==
    IF Len(history) < 3 THEN "Stable"
    ELSE LET recent == SubSeq(history, Len(history) - 2, Len(history))
             scores == [i \in 1..3 |-> recent[i].fall_risk_score]
         IN IF scores[3] > 7000 THEN "High"
            ELSE IF scores[1] < scores[2] /\ scores[2] < scores[3] THEN "Increasing"
            ELSE "Stable"

_severity_rankBroken(level) ==
    CASE level = "Low" -> 0 [] level = "Medium" -> 2 [] level = "High" -> 1
_severity_rank(level) ==
    CASE level = "Low" -> 0 [] level = "Medium" -> 1 [] level = "High" -> 2

\* max(a, b, key=self._severity_rank): the first of the largest
MaxByRank(a, b) == IF _severity_rank(b) > _severity_rank(a) THEN b ELSE a

\* messages and severity as generate_alert threads them through its rules
AlertStart == [messages |-> <<>>, severity |-> "Low"]

TrendIncreasing(st, risk_trend) ==
    IF risk_trend = "Increasing"
    THEN [messages |-> Append(st.messages,
                              "Fall risk has been increasing steadily over recent days."),
          severity |-> "Medium"]
    ELSE st

TrendHigh(st, risk_trend) ==
    IF risk_trend = "High"
    THEN [messages |-> Append(st.messages,
                              "High fall risk detected. Immediate attention is recommended."),
          severity |-> "High"]
    ELSE st

DriftMediumBroken(st, drift) ==
    IF drift.drift_level = "Medium"
    THEN [messages |-> Append(st.messages,
                              "Mobility patterns show noticeable decline compared to baseline."),
          severity |-> "Medium"]
    ELSE st
DriftMedium(st, drift) ==
    IF drift.drift_level = "Medium"
    THEN [messages |-> Append(st.messages,
                              "Mobility patterns show noticeable decline compared to baseline."),
          severity |-> MaxByRank(st.severity, "Medium")]
    ELSE st

DriftHigh(st, drift) ==
    IF drift.drift_level = "High"
    THEN [messages |-> Append(st.messages,
                              "Significant mobility decline detected over multiple weeks."),
          severity |-> "High"]
    ELSE st

IsDriftNarrative(alert) == alert # "No significant mobility drift detected."

CopyAlerts(st, drift) ==
    [st EXCEPT !.messages = @ \o SelectSeq(drift.alerts, IsDriftNarrative)]

Recommendation(severity) ==
    IF severity = "High"
    THEN "Recommend immediate caregiver check-in or medical consultation."
    ELSE IF severity = "Medium" THEN "Recommend caregiver monitoring and follow-up."
    ELSE "Mobility stable. No immediate intervention required."

Recommend(st) == [st EXCEPT !.messages = Append(@, Recommendation(st.severity))]

\* the state after each of the six steps of generate_alert
AlertStages(history, drift) ==
    LET risk_trend == _analyze_risk_trend(history)
        s1 == TrendIncreasing(AlertStart, risk_trend)
        s2 == TrendHigh(s1, risk_trend)
        s3 == DriftMedium(s2, drift)
        s4 == DriftHigh(s3, drift)
        s5 == CopyAlerts(s4, drift)
    IN <<s1, s2, s3, s4, s5, Recommend(s5)>>

\* alert_payload
generate_alert(user_id, history, drift) ==
    LET final == AlertStages(history, drift)[6]
    IN [user_id |-> user_id,
        timestamp |-> UtcNow,
        severity |-> final.severity,
        messages |-> final.messages,
        drift_level |-> drift.drift_level,
        latest_fall_risk |-> IF history # <<>>
                             THEN history[Len(history)].fall_risk_score
                             ELSE NoScore]

(***************************************************************************)
(* `count[user_id] += 1` as the two steps the interpreter takes: read the  *)
(* entry, then store the value read plus one                               *)
(***************************************************************************)
WriteBackBroken(count, user_id, value) == [u \in DOMAIN count |-> value + 1]
WriteBack(count, user_id, value) == [count EXCEPT ![user_id] = value + 1]

FreshEngine == [count |-> [u \in Users |-> 0], log |-> <<>>, exc |-> FALSE]

\* the violations one evaluate_event call logs for the pair
LoggedBy(user_id, zone, activity) ==
    evaluate_event(FreshEngine, user_id, zone, user_id, activity, TRUE).log

\* the violations one _workplace_logic call finds for the pair
FoundBy(user_id, zone, activity) ==
    WorkplaceRules(RouterState, user_id, zone, activity).found

Fires(engine, user_id, zone, activity) ==
    IF engine = "ws" THEN LoggedBy(user_id, zone, activity) # <<>>
    ELSE FoundBy(user_id, zone, activity) # <<>>

(***************************************************************************)
(* Initial state                                                           *)
(***************************************************************************)
Init ==
    /\ user_violation_count = [u \in Users |-> 0]
    /\ violations = <<>>
    /\ workplace_violations = [u \in Users |-> 0]
    /\ daily_events = <<>>
    /\ daily_data = <<>>
    /\ ingested = <<>>
    /\ window = <<>>
    /\ baseline = NoMetrics
    /\ current = NoMetrics
    /\ recent_events = <<>>
    /\ risk_history = <<>>
    /\ drift_result = NoDrift
    /\ threads = [u \in Users |-> IdleThread]
    /\ call = [op |-> "__init__", ids |-> <<>>]
    /\ result = None

(***************************************************************************)
(* Actions                                                                 *)
(***************************************************************************)
ElderlyUnchanged ==
    UNCHANGED <<daily_events, daily_data, ingested, window, baseline, current>>
WorkplaceUnchanged == UNCHANGED <<user_violation_count, violations, workplace_violations>>
ScorerUnchanged == UNCHANGED <<recent_events, risk_history, drift_result>>
ThreadsUnchanged == UNCHANGED threads

EvaluateEvent(zone_user, zone, activity_user, activity, sink_ok) ==
    LET s == evaluate_event(EngineState, zone_user, zone, activity_user, activity, sink_ok)
    IN /\ Len(violations) < MaxLog
       /\ user_violation_count' = s.count
       /\ violations' = s.log
       /\ result' = IF s.exc THEN Raised ELSE None
       /\ call' = [op |-> "evaluate_event", ids |-> <<zone_user, activity_user>>]
       /\ UNCHANGED workplace_violations
       /\ ElderlyUnchanged
       /\ ScorerUnchanged
       /\ ThreadsUnchanged

PushDashboardMetrics(user_id, zone, sink_ok) ==
    /\ result' = PushAndReturn(push_dashboard_metrics(user_id, zone), sink_ok)
    /\ call' = [op |-> "push_dashboard_metrics", ids |-> <<user_id>>]
    /\ UNCHANGED <<user_violation_count, violations, workplace_violations>>
    /\ ElderlyUnchanged
    /\ ScorerUnchanged
    /\ ThreadsUnchanged

RouteEvent(role, user_id, activity, fall_prob, zone, sink_ok) ==
    /\ workplace_violations[user_id] < MaxCount
    /\ workplace_violations' = route_event_count(role, user_id, activity, zone)
    /\ result' = PushAndReturn(route_event_record(role, user_id, activity, fall_prob, zone),
                               sink_ok)
    /\ call' = [op |-> "route_event", ids |-> <<role, user_id>>]
    /\ UNCHANGED <<user_violation_count, violations>>
    /\ ElderlyUnchanged
    /\ ScorerUnchanged
    /\ ThreadsUnchanged

\* the same (zone, activity) pair of one user given to both engines
PairedEvaluation(zone, activity, sink_ok) ==
    LET s == evaluate_event(EngineState, PairUser, zone, PairUser, activity, sink_ok)
    IN /\ Len(violations) < MaxPairs
       /\ workplace_violations[PairUser] < MaxPairs
       /\ user_violation_count' = s.count
       /\ violations' = s.log
       /\ workplace_violations' = route_event_count(EMPLOYEE, PairUser, activity, zone)
       /\ result' = PushAndReturn(
                       route_event_record(EMPLOYEE, PairUser, activity, 0, zone), sink_ok)
       /\ call' = [op |-> "evaluate_event+route_event", ids |-> <<PairUser, PairUser>>]
       /\ ElderlyUnchanged
       /\ ScorerUnchanged
       /\ ThreadsUnchanged

\* one observed event, filed by both detectors
AddEvent(timestamp, activity, fall_prob, is_fall) ==
    LET e == [timestamp |-> timestamp, activity |-> activity,
              fall_prob |-> fall_prob, is_fall |-> is_fall]
    IN /\ StoredEvents(daily_data) < MaxEvents
       /\ daily_events' = FileEvent(daily_events, DateOf(timestamp), DriftEvent(e))
       /\ daily_data' = FileEvent(daily_data, DateOf(timestamp), e)
       /\ ingested' = Append(ingested, e)
       /\ window' = <<>>
       /\ call' = [op |-> "add_event", ids |-> <<e>>]
       /\ result' = None
       /\ UNCHANGED <<baseline, current>>
       /\ WorkplaceUnchanged
       /\ ScorerUnchanged
       /\ ThreadsUnchanged

ComputeBaseline(start_day) ==
    /\ window' = <<compute_baseline_events(start_day)>>
    /\ result' = compute_baseline(start_day)
    /\ call' = [op |-> "compute_baseline", ids |-> <<start_day>>]
    /\ UNCHANGED <<daily_events, daily_data, ingested, baseline, current>>
    /\ WorkplaceUnchanged
    /\ ScorerUnchanged
    /\ ThreadsUnchanged

ComputeCurrentWeek(end_day) ==
    /\ window' = <<compute_current_week_events(end_day)>>
    /\ result' = compute_current_week(end_day)
    /\ call' = [op |-> "compute_current_week", ids |-> <<end_day>>]
    /\ UNCHANGED <<daily_events, daily_data, ingested, baseline, current>>
    /\ WorkplaceUnchanged
    /\ ScorerUnchanged
    /\ ThreadsUnchanged

GenerateDailySummary(user_id, day, sink_ok) ==
    /\ window' = <<Bucket(daily_data, day)>>
    /\ result' = IF generate_daily_summary(user_id, day) = None THEN None
                 ELSE PushAndReturn(generate_daily_summary(user_id, day), sink_ok)
    /\ call' = [op |-> "generate_daily_summary", ids |-> <<day>>]
    /\ UNCHANGED <<daily_events, daily_data, ingested, baseline, current>>
    /\ WorkplaceUnchanged
    /\ ScorerUnchanged
    /\ ThreadsUnchanged

GenerateWeeklyTrend(user_id, end_day, sink_ok) ==
    /\ window' = <<this_week_events(end_day), last_week_events(end_day)>>
    /\ result' = PushAndReturn(generate_weekly_trend(user_id, end_day), sink_ok)
    /\ call' = [op |-> "generate_weekly_trend", ids |-> <<end_day>>]
    /\ UNCHANGED <<daily_events, daily_data, ingested, baseline, current>>
    /\ WorkplaceUnchanged
    /\ ScorerUnchanged
    /\ ThreadsUnchanged

DetectDrift ==
    /\ baseline # NoMetrics
    /\ current # NoMetrics
    /\ result' = detect_drift(baseline, current)
    /\ call' = [op |-> "detect_drift", ids |-> <<>>]
    /\ UNCHANGED <<daily_events, daily_data, ingested, window, baseline, current>>
    /\ WorkplaceUnchanged
    /\ ScorerUnchanged
    /\ ThreadsUnchanged

Score(kind, value) == [domain |-> kind, score |-> value]

RiskFrame ==
    /\ UNCHANGED <<daily_events, daily_data, ingested, window, baseline, current>>
    /\ WorkplaceUnchanged
    /\ ScorerUnchanged
    /\ ThreadsUnchanged

ComputeFallRisk ==
    /\ result' = Score("fall_risk", compute_fall_risk(recent_events))
    /\ call' = [op |-> "compute_fall_risk", ids |-> <<>>]
    /\ RiskFrame

ComputeSafetyRisk ==
    /\ result' = Score("safety_risk", compute_safety_risk(recent_events))
    /\ call' = [op |-> "compute_safety_risk", ids |-> <<>>]
    /\ RiskFrame

ComputeRehabProgress ==
    /\ result' = Score("rehab_progress", compute_rehab_progress(recent_events))
    /\ call' = [op |-> "compute_rehab_progress", ids |-> <<>>]
    /\ RiskFrame

\* the fall_risk_score MotionBiography puts in a daily summary of the same events
BiographyFallRisk ==
    /\ result' = Score("biography_fall_risk", _compute_fall_risk(recent_events))
    /\ call' = [op |-> "_compute_fall_risk", ids |-> <<>>]
    /\ RiskFrame

AnalyzeRiskTrend ==
    /\ result' = [domain |-> "trend", risk_trend |-> _analyze_risk_trend(risk_history)]
    /\ call' = [op |-> "_analyze_risk_trend", ids |-> <<>>]
    /\ RiskFrame

GenerateAlert ==
    \E sink_ok \in BOOLEAN :
        /\ result' = PushAndReturn(generate_alert(ElderUser, risk_history, drift_result),
                                   sink_ok)
        /\ call' = [op |-> "generate_alert", ids |-> <<ElderUser>>]
        /\ RiskFrame

ConcurrentFrame ==
    /\ ElderlyUnchanged
    /\ ScorerUnchanged

\* a thread starts evaluate_event ("ws") or route_event ("ce") for its user
BeginEvaluation(u, engine, zone, activity) ==
    LET t == threads[u]
        fires == Fires(engine, u, zone, activity)
    IN /\ t.pc = "idle"
       /\ t.triggered.ws + t.triggered.ce < MaxConcurrent
       /\ threads' = [threads EXCEPT ![u] =
             [pc |-> IF fires THEN "read" ELSE "return",
              engine |-> engine, zone |-> zone, activity |-> activity, tmp |-> 0,
              triggered |-> IF fires THEN [t.triggered EXCEPT ![engine] = @ + 1]
                            ELSE t.triggered]]
       /\ UNCHANGED <<user_violation_count, violations, workplace_violations, call, result>>
       /\ ConcurrentFrame

\* the read half of `+= 1`
ReadCounter(u) ==
    LET t == threads[u]
    IN /\ t.pc = "read"
       /\ threads' = [threads EXCEPT ![u].pc = "write",
                                     ![u].tmp = IF t.engine = "ws"
                                                THEN user_violation_count[u]
                                                ELSE workplace_violations[u]]
       /\ UNCHANGED <<user_violation_count, violations, workplace_violations, call, result>>
       /\ ConcurrentFrame

\* the write half of `+= 1`
WriteCounter(u) ==
    LET t == threads[u]
    IN /\ t.pc = "write"
       /\ IF t.engine = "ws"
          THEN /\ user_violation_count' = WriteBack(user_violation_count, u, t.tmp)
               /\ UNCHANGED workplace_violations
          ELSE /\ workplace_violations' = WriteBack(workplace_violations, u, t.tmp)
               /\ UNCHANGED user_violation_count
       /\ threads' = [threads EXCEPT ![u].pc = IF t.engine = "ws" THEN "append" ELSE "return"]
       /\ UNCHANGED <<violations, call, result>>
       /\ ConcurrentFrame

\* the rest of _log_violation: append to the shared log, push, return
AppendLog(u, sink_ok) ==
    LET t == threads[u]
    IN /\ t.pc = "append"
       /\ violations' = violations \o LoggedBy(u, t.zone, t.activity)
       /\ threads' = [threads EXCEPT ![u].pc = "idle"]
       /\ result' = IF sink_ok THEN None ELSE Raised
       /\ call' = [op |-> "evaluate_event", ids |-> <<u, u>>]
       /\ UNCHANGED <<user_violation_count, workplace_violations>>
       /\ ConcurrentFrame

\* the end of a call: _workplace_logic reads the counter for its record and
\* route_event pushes it; evaluate_event without a violation returns None
ReturnEvaluation(u, sink_ok) ==
    LET t == threads[u]
        s == [count |-> workplace_violations, found |-> FoundBy(u, t.zone, t.activity)]
    IN /\ t.pc = "return"
       /\ threads' = [threads EXCEPT ![u].pc = "idle"]
       /\ IF t.engine = "ws"
          THEN /\ result' = None
               /\ call' = [op |-> "evaluate_event", ids |-> <<u, u>>]
          ELSE /\ result' = PushAndReturn(_workplace_logic(s, u, t.activity, t.zone), sink_ok)
               /\ call' = [op |-> "route_event", ids |-> <<EMPLOYEE, u>>]
       /\ UNCHANGED <<user_violation_count, violations, workplace_violations>>
       /\ ConcurrentFrame

NextEngine ==
    \/ \E zu \in Users, au \in Users, z \in Zones, a \in Activities, ok \in BOOLEAN :
          EvaluateEvent(zu, z, au, a, ok)
    \/ \E u \in Users, z \in Zones, ok \in BOOLEAN : PushDashboardMetrics(u, z, ok)

NextRouter ==
    \E r \in Roles, u \in Users, a \in Activities, fp \in FallProbs,
       z \in Zones \cup {NoZone}, ok \in BOOLEAN :
          RouteEvent(r, u, a, fp, z, ok)

NextPair ==
    \/ \E z \in Zones, a \in Activities, ok \in BOOLEAN : PairedEvaluation(z, a, ok)
    \/ \E z \in Zones, ok \in BOOLEAN : PushDashboardMetrics(PairUser, z, ok)

NextStore ==
    \/ \E t \in EventTicks, a \in EventActivities, f \in FallSamples :
          AddEvent(t, a, f[1], f[2])
    \/ \E d \in StartDays : ComputeBaseline(d)
    \/ \E d \in EndDays : ComputeCurrentWeek(d)
    \/ \E d \in SummaryDays, ok \in BOOLEAN : GenerateDailySummary(ElderUser, d, ok)
    \/ \E d \in EndDays, ok \in BOOLEAN : GenerateWeeklyTrend(ElderUser, d, ok)

\* detect_drift over every pair of metrics within the bound
InitDrift ==
    /\ user_violation_count = [u \in Users |-> 0]
    /\ violations = <<>>
    /\ workplace_violations = [u \in Users |-> 0]
    /\ daily_events = <<>>
    /\ daily_data = <<>>
    /\ ingested = <<>>
    /\ window = <<>>
    /\ baseline \in Metrics
    /\ current \in Metrics
    /\ recent_events = <<>>
    /\ risk_history = <<>>
    /\ drift_result = NoDrift
    /\ threads = [u \in Users |-> IdleThread]
    /\ call = [op |-> "__init__", ids |-> <<>>]
    /\ result = None

NextDrift == DetectDrift

\* the scorers over every event list within the bound
InitRisk ==
    /\ user_violation_count = [u \in Users |-> 0]
    /\ violations = <<>>
    /\ workplace_violations = [u \in Users |-> 0]
    /\ daily_events = <<>>
    /\ daily_data = <<>>
    /\ ingested = <<>>
    /\ window = <<>>
    /\ baseline = NoMetrics
    /\ current = NoMetrics
    /\ recent_events \in RiskInputs
    /\ risk_history = <<>>
    /\ drift_result = NoDrift
    /\ threads = [u \in Users |-> IdleThread]
    /\ call = [op |-> "__init__", ids |-> <<>>]
    /\ result = None

NextRisk ==
    \/ ComputeFallRisk
    \/ ComputeSafetyRisk
    \/ ComputeRehabProgress
    \/ BiographyFallRisk

SpecRisk == InitRisk /\ [][NextRisk]_vars
\* the alert generator over every history and drift result within the bound
InitAlert ==
    /\ user_violation_count = [u \in Users |-> 0]
    /\ violations = <<>>
    /\ workplace_violations = [u \in Users |-> 0]
    /\ daily_events = <<>>
    /\ daily_data = <<>>
    /\ ingested = <<>>
    /\ window = <<>>
    /\ baseline = NoMetrics
    /\ current = NoMetrics
    /\ recent_events = <<>>
    /\ risk_history \in Histories
    /\ drift_result \in DriftResults
    /\ threads = [u \in Users |-> IdleThread]
    /\ call = [op |-> "__init__", ids |-> <<>>]
    /\ result = None

NextAlert ==
    \/ AnalyzeRiskTrend
    \/ GenerateAlert

SpecAlert == InitAlert /\ [][NextAlert]_vars

NextConcurrent ==
    \/ \E u \in Users, engine \in {"ws", "ce"}, e \in ConcurrentEvents :
          BeginEvaluation(u, engine, e[1], e[2])
    \/ \E u \in Users : ReadCounter(u)
    \/ \E u \in Users : WriteCounter(u)
    \/ \E u \in Users, ok \in BOOLEAN : AppendLog(u, ok)
    \/ \E u \in Users, ok \in BOOLEAN : ReturnEvaluation(u, ok)

\* one thread per user, interleaved at the steps of the counter increment
SpecConcurrent == Init /\ [][NextConcurrent]_vars

SpecStore == Init /\ [][NextStore]_vars
SpecDrift == InitDrift /\ [][NextDrift]_vars
SpecEngine == Init /\ [][NextEngine]_vars
SpecRouter == Init /\ [][NextRouter]_vars
SpecPair == Init /\ [][NextPair]_vars

(***************************************************************************)
(* Properties                                                              *)
(***************************************************************************)
ReportsCount(r) == r.domain \in {"workplace", "dashboard"}

CountersNonDecreasing ==
    \A u \in Users :
        /\ user_violation_count'[u] >= user_violation_count[u]
        /\ workplace_violations'[u] >= workplace_violations[u]

EscalationFollowsCount ==
    (ReportsCount(result) /\ ReportsCount(result')
        /\ result.violation_count = result'.violation_count)
    => result.escalation_level = result'.escalation_level

\* C1: across workplace evaluations no user's violation counter ever
\* decreases, in either engine, and two reports made at the same counter
\* value carry the same escalation level.
C1_CounterMonotone == [][CountersNonDecreasing /\ EscalationFollowsCount]_vars

C1_Witness ==
    /\ result.domain = "workplace"
    /\ result.violation_count >= 3
    /\ user_violation_count[PairUser] >= 2
    /\ workplace_violations[PairUser] >= 3

Ladder(n) ==
    CASE n = 0 -> "No Action"
      [] n \in {1, 2} -> "Warning"
      [] n \in {3, 4} -> "Supervisor Alert"
      [] n >= 5 -> "Admin Escalation"

\* C2: the escalation level is No Action at 0, Warning at 1-2, Supervisor
\* Alert at 3-4 and Admin Escalation from 5 on, for get_escalation_level,
\* for _escalation_level and in every report.
C2_EscalationLadder ==
    /\ \A u \in Users :
          /\ get_escalation_level(u) = Ladder(user_violation_count[u])
          /\ _escalation_level(workplace_violations[u]) = Ladder(workplace_violations[u])
    /\ ReportsCount(result) => result.escalation_level = Ladder(result.violation_count)

C2_Witness ==
    /\ user_violation_count[PairUser] = 5
    /\ workplace_violations[PairUser] = 5
    /\ get_escalation_level(PairUser) = "Admin Escalation"
    /\ result.domain = "workplace"
    /\ result.escalation_level = "Admin Escalation"

ScoreFormula(n) == IF 100 - 15 * n > 0 THEN 100 - 15 * n ELSE 0

SafetyScoreInv ==
    /\ \A u \in Users :
          /\ compute_safety_score(u) = ScoreFormula(user_violation_count[u])
          /\ compute_safety_score(u) \in 0..100
          /\ user_violation_count[u] = 5 => compute_safety_score(u) = 25
          /\ user_violation_count[u] >= 7 => compute_safety_score(u) = 0
    /\ ReportsCount(result) =>
          /\ result.safety_score = ScoreFormula(result.violation_count)
          /\ result.safety_score \in 0..100
          /\ result.violation_count = 5 => result.safety_score = 25
          /\ result.violation_count >= 7 => result.safety_score = 0

ScoreNeverRises ==
    /\ \A u \in Users : compute_safety_score(u)' <= compute_safety_score(u)
    /\ (result.domain = "workplace" /\ result'.domain = "workplace"
          /\ result.user_id = result'.user_id)
       => result'.safety_score <= result.safety_score

\* C3: the safety score is max(100 - 15*count, 0) of the user's current
\* count: within 0..100, 25 at count 5, 0 from count 7 on, and it never
\* rises from one evaluation to the next.
C3_SafetyScore == []SafetyScoreInv /\ [][ScoreNeverRises]_vars

C3_Witness ==
    /\ user_violation_count[PairUser] >= 7
    /\ compute_safety_score(PairUser) = 0
    /\ result.domain = "workplace"
    /\ result.violation_count >= 7
    /\ result.safety_score = 0

MismatchedCall(c) == c.op = "evaluate_event" /\ c.ids[1] # c.ids[2]

\* C4: an evaluate_event call whose zone event and activity event carry
\* different user ids changes no counter and leaves the violation log as
\* it was.
C4_MismatchNoOp ==
    [][MismatchedCall(call') => UNCHANGED <<user_violation_count, violations>>]_vars

C4_Witness ==
    /\ MismatchedCall(call)
    /\ Len(violations) >= 2
    /\ \E u \in Users : user_violation_count[u] >= 2

\* C5: after every paired step the router's employee path and
\* evaluate_event leave the user with the same violation count, the same
\* escalation level and the same safety score.
C5_RouterDelegates ==
    /\ workplace_violations[PairUser] = user_violation_count[PairUser]
    /\ _escalation_level(workplace_violations[PairUser]) = get_escalation_level(PairUser)
    /\ Max(100 - (workplace_violations[PairUser] * 15), 0) = compute_safety_score(PairUser)

\* C6 as stated: some zone and activity make one evaluation call raise the
\* user's counter by more than one.
C6_PairTriggersSeveral ==
    \/ \E z \in Zones, a \in Activities, ok \in BOOLEAN :
          evaluate_event(EngineState, PairUser, z, PairUser, a, ok).count[PairUser]
             > user_violation_count[PairUser] + 1
    \/ \E z \in Zones \cup {NoZone}, a \in Activities :
          route_event_count(EMPLOYEE, PairUser, a, z)[PairUser]
             > workplace_violations[PairUser] + 1

AtMostOnePerCall ==
    /\ \A u \in Users :
          /\ user_violation_count'[u] <= user_violation_count[u] + 1
          /\ workplace_violations'[u] <= workplace_violations[u] + 1
    /\ Len(violations') <= Len(violations) + 1
    /\ result'.domain = "workplace" => Len(result'.violations) <= 1

\* C6 (amended): one workplace evaluation call raises a user's counter by
\* at most one and logs at most one violation, for every zone and activity.
C6_AtMostOneViolationPerCall == [][AtMostOnePerCall]_vars

C6_Witness ==
    /\ result.domain = "workplace"
    /\ Len(result.violations) = 1
    /\ result.violation_count >= 2
    /\ user_violation_count[PairUser] >= 2

FiredCount(b, c) ==
    (IF WalkDeclined(b, c) THEN 1 ELSE 0)
    + (IF TransitionsIncreased(b, c) THEN 1 ELSE 0)
    + (IF InactivityIncreased(b, c) THEN 1 ELSE 0)

LevelTable(score) ==
    CASE score = 0 -> "Low" [] score = 1 -> "Medium" [] score \in {2, 3} -> "High"

\* C7: detect_drift returns a drift_score in 0..3 equal to the number of
\* rules that fire, and a drift_level that is Low for 0, Medium for 1 and
\* High for 2 or 3.
C7_DriftScoreLevel ==
    result.domain = "drift" =>
        /\ result.drift_score \in 0..3
        /\ result.drift_score = FiredCount(baseline, current)
        /\ result.drift_level = LevelTable(result.drift_score)

C7_Witness ==
    /\ result.domain = "drift"
    /\ result.drift_score = 2
    /\ result.drift_level = "High"

ExpectedAlerts(b, c) ==
    (IF WalkDeclined(b, c) THEN <<WalkAlert>> ELSE <<>>)
    \o (IF TransitionsIncreased(b, c) THEN <<TransitionAlert>> ELSE <<>>)
    \o (IF InactivityIncreased(b, c) THEN <<InactivityAlert>> ELSE <<>>)

\* C8: the alerts of detect_drift are never empty: only the sentinel when
\* no rule fires; otherwise one narrative per fired rule in the order walk,
\* transitions, inactivity, as many as drift_score, without the sentinel.
C8_DriftAlerts ==
    result.domain = "drift" =>
        /\ result.alerts # <<>>
        /\ FiredCount(baseline, current) = 0 => result.alerts = <<NoDriftAlert>>
        /\ FiredCount(baseline, current) > 0 =>
              /\ result.alerts = ExpectedAlerts(baseline, current)
              /\ Len(result.alerts) = result.drift_score
              /\ \A i \in 1..Len(result.alerts) : result.alerts[i] # NoDriftAlert

C8_Witness ==
    /\ result.domain = "drift"
    /\ result.alerts = <<WalkAlert, TransitionAlert, InactivityAlert>>
    /\ result.drift_score = 3

\* events of the history dated `day`, in call order
IngestedOn(day) == SelectSeq(ingested, LAMBDA e : e.timestamp \div TicksPerDay = day)
DriftView(events) == [i \in 1..Len(events) |-> DriftEvent(events[i])]

\* the history's events of n days, oldest day first
RECURSIVE OldestFirst(_, _)
OldestFirst(first_day, n) ==
    IF n = 0 THEN <<>> ELSE IngestedOn(first_day) \o OldestFirst(first_day + 1, n - 1)

\* the history's events of n days, newest day first
RECURSIVE NewestFirst(_, _)
NewestFirst(last_day, n) ==
    IF n = 0 THEN <<>> ELSE IngestedOn(last_day) \o NewestFirst(last_day - 1, n - 1)

\* C9 as stated: every day-range read collects its days oldest first.
C9_AllReadsOldestFirst ==
    /\ call.op = "compute_baseline" =>
          window[1] = DriftView(OldestFirst(call.ids[1], BaselineDays))
    /\ call.op = "compute_current_week" =>
          window[1] = DriftView(OldestFirst(call.ids[1] - (WeekDays - 1), WeekDays))
    /\ call.op = "generate_weekly_trend" =>
          /\ window[1] = OldestFirst(call.ids[1] - (WeekDays - 1), WeekDays)
          /\ window[2] = OldestFirst(call.ids[1] - (2 * WeekDays - 1), WeekDays)

\* C9 (amended): compute_baseline collects its days oldest first;
\* compute_current_week and generate_weekly_trend collect theirs newest
\* first; within a day events come in insertion order, and a day without a
\* bucket contributes nothing.
C9_ReadsInLoopOrder ==
    /\ call.op = "compute_baseline" =>
          window[1] = DriftView(OldestFirst(call.ids[1], BaselineDays))
    /\ call.op = "compute_current_week" =>
          window[1] = DriftView(NewestFirst(call.ids[1], WeekDays))
    /\ call.op = "generate_weekly_trend" =>
          /\ window[1] = NewestFirst(call.ids[1], WeekDays)
          /\ window[2] = NewestFirst(call.ids[1] - WeekDays, WeekDays)

C9_Witness ==
    /\ call.op = "compute_current_week"
    /\ Len(window[1]) >= 2
    /\ window[1][1].timestamp \div TicksPerDay > window[1][2].timestamp \div TicksPerDay

ReadOps == {"compute_baseline", "compute_current_week",
            "generate_daily_summary", "generate_weekly_trend"}

BucketsMatchHistory ==
    /\ \A d \in DOMAIN daily_data : daily_data[d] = IngestedOn(d) /\ daily_data[d] # <<>>
    /\ \A d \in DOMAIN daily_events :
          daily_events[d] = DriftView(IngestedOn(d)) /\ daily_events[d] # <<>>
    /\ \A i \in 1..Len(ingested) :
          /\ ingested[i].timestamp \div TicksPerDay \in DOMAIN daily_data
          /\ ingested[i].timestamp \div TicksPerDay \in DOMAIN daily_events

ReadsKeepBuckets ==
    call'.op \in ReadOps => UNCHANGED <<daily_events, daily_data>>

AddExtendsOwnBucket ==
    call'.op = "add_event" =>
        LET e == call'.ids[1]
            d == e.timestamp \div TicksPerDay
        IN /\ Bucket(daily_data', d) = Append(Bucket(daily_data, d), e)
           /\ Bucket(daily_events', d) = Append(Bucket(daily_events, d), DriftEvent(e))
           /\ \A o \in (DOMAIN daily_data' \cup DOMAIN daily_events') \ {d} :
                 /\ Bucket(daily_data', o) = Bucket(daily_data, o)
                 /\ Bucket(daily_events', o) = Bucket(daily_events, o)

\* C10: every bucket holds exactly the events dated to its day, in the
\* order they were added; add_event extends only the bucket of the event's
\* own date, by that event at the end; no read changes any bucket.
C10_BucketsAppendOnly ==
    []BucketsMatchHistory /\ [][ReadsKeepBuckets /\ AddExtendsOwnBucket]_vars

C10_Witness ==
    /\ call.op \in ReadOps
    /\ \E d \in DOMAIN daily_data :
          /\ Len(daily_data[d]) = 2
          /\ daily_data[d][1].timestamp # daily_data[d][2].timestamp
          /\ Len(Bucket(daily_events, d)) = 2

RiskOps == {"compute_fall_risk", "compute_safety_risk", "compute_rehab_progress"}

\* C11: compute_fall_risk, compute_safety_risk and compute_rehab_progress
\* each return a value within 0..100 (0..10000 hundredths) for every event
\* list, and 0.0 for the empty list.
C11_ScoresInRange ==
    call.op \in RiskOps =>
        /\ result.score \in 0..10000
        /\ recent_events = <<>> => result.score = 0

C11_Witness ==
    /\ call.op = "compute_rehab_progress"
    /\ recent_events # <<>>
    /\ result.score = 10000

\* the fall risk of section 4.3, with the inactivity term a step
StepFallRisk(events) ==
    LET total == Len(events)
        step == IF 10 * CountActivity(events, "Static") > 6 * total THEN 1 ELSE 0
    IN IF total = 0 THEN 0
       ELSE Min(RoundDiv(4000 * CountFalls(events) + 3000 * CountNearFalls(events)
                         + 2000 * CountActivity(events, "Transitions")
                         + 1000 * step * total, total), 10000)

\* C12: both fall-risk computations, RiskScorer.compute_fall_risk and
\* MotionBiography's fall_risk_score, weight inactivity as a step (1 when
\* Static > 0.6 * total, else 0) and so agree on the same events.
C12_FallRiskStepEverywhere ==
    /\ call.op = "compute_fall_risk" =>
          /\ result.score = StepFallRisk(recent_events)
          /\ result.score = _compute_fall_risk(recent_events)
    /\ call.op = "_compute_fall_risk" =>
          /\ result.score = StepFallRisk(recent_events)
          /\ result.score = compute_fall_risk(recent_events)

IsScenarioB(events) ==
    /\ Len(events) = 14
    /\ CountFalls(events) = 3
    /\ CountNearFalls(events) = 4
    /\ CountActivity(events, "Transitions") = 3
    /\ CountActivity(events, "Static") = 7

\* C13 as stated: Scenario B gives a fall risk of 25.0.
C13_ScenarioB25 ==
    (call.op = "compute_fall_risk" /\ IsScenarioB(recent_events)) => result.score = 2500

\* C13 (amended): for 14 events with 3 falls, 4 near-falls, 3 Transitions
\* and 7 Static, compute_fall_risk returns 21.43.
C13_ScenarioB2143 ==
    (call.op = "compute_fall_risk" /\ IsScenarioB(recent_events)) => result.score = 2143

C13_Witness ==
    /\ call.op = "compute_fall_risk"
    /\ IsScenarioB(recent_events)
    /\ result.score = 2143

LastThree(history) == SubSeq(history, Len(history) - 2, Len(history))

ExpectedTrend(history) ==
    IF Len(history) < 3 THEN "Stable"
    ELSE LET s0 == history[Len(history) - 2].fall_risk_score
             s1 == history[Len(history) - 1].fall_risk_score
             s2 == history[Len(history)].fall_risk_score
         IN IF s2 > 7000 THEN "High"
            ELSE IF s0 < s1 /\ s1 < s2 THEN "Increasing"
            ELSE "Stable"

\* C14: _analyze_risk_trend returns "Stable" for fewer than 3 snapshots;
\* otherwise it looks at the last three scores only: "High" when the last
\* is above 70 (checked first), else "Increasing" exactly when they rise
\* strictly, else "Stable"; [42, 55, 68] gives "Increasing" and earlier
\* snapshots never change the result.
C14_RiskTrend ==
    call.op = "_analyze_risk_trend" =>
        /\ result.risk_trend = ExpectedTrend(risk_history)
        /\ Len(risk_history) >= 3 =>
              result.risk_trend = _analyze_risk_trend(LastThree(risk_history))
        /\ (/\ Len(risk_history) >= 3
            /\ LastThree(risk_history)
                 = <<RiskSnapshot(4200), RiskSnapshot(5500), RiskSnapshot(6800)>>)
              => result.risk_trend = "Increasing"

C14_Witness ==
    /\ call.op = "_analyze_risk_trend"
    /\ Len(risk_history) = 4
    /\ risk_history[1].fall_risk_score = 7100
    /\ LastThree(risk_history)
         = <<RiskSnapshot(4200), RiskSnapshot(5500), RiskSnapshot(6800)>>
    /\ result.risk_trend = "Increasing"

Returned == call.op = "generate_alert" /\ result # Raised

Rank(level) == CASE level = "Low" -> 0 [] level = "Medium" -> 1 [] level = "High" -> 2

Recommendations ==
    {"Recommend immediate caregiver check-in or medical consultation.",
     "Recommend caregiver monitoring and follow-up.",
     "Mobility stable. No immediate intervention required."}

ClosingFor(severity) ==
    CASE severity = "High" ->
            "Recommend immediate caregiver check-in or medical consultation."
      [] severity = "Medium" -> "Recommend caregiver monitoring and follow-up."
      [] severity = "Low" -> "Mobility stable. No immediate intervention required."

\* C15: in generate_alert the severity never drops in rank from one rule to
\* the next, and the returned messages end with exactly one closing
\* recommendation, the one of the final severity, and hold no other.
C15_SeverityNeverDrops ==
    Returned =>
        LET stages == AlertStages(risk_history, drift_result)
            n == Len(result.messages)
        IN /\ Rank(stages[1].severity) >= Rank(AlertStart.severity)
           /\ \A i \in 1..5 : Rank(stages[i + 1].severity) >= Rank(stages[i].severity)
           /\ result.severity = stages[6].severity
           /\ result.messages = stages[6].messages
           /\ n >= 1
           /\ result.messages[n] = ClosingFor(result.severity)
           /\ \A i \in 1..(n - 1) : result.messages[i] \notin Recommendations

C15_Witness ==
    /\ Returned
    /\ _analyze_risk_trend(risk_history) = "High"
    /\ drift_result.drift_level = "Medium"
    /\ result.severity = "High"
    /\ Len(result.messages) = 5

\* C16: the severity returned by generate_alert is High exactly when the
\* trend or the drift level is "High", Medium exactly when neither is and
\* the trend is "Increasing" or the drift level "Medium", Low exactly when
\* the trend is "Stable" and the drift level "Low".
C16_FinalSeverity ==
    Returned =>
        LET risk_trend == ExpectedTrend(risk_history)
            level == drift_result.drift_level
        IN /\ result.severity = "High" <=> (risk_trend = "High" \/ level = "High")
           /\ result.severity = "Medium" <=>
                 (/\ ~(risk_trend = "High" \/ level = "High")
                  /\ (risk_trend = "Increasing" \/ level = "Medium"))
           /\ result.severity = "Low" <=> (risk_trend = "Stable" /\ level = "Low")

C16_Witness ==
    /\ Returned
    /\ ExpectedTrend(risk_history) = "Increasing"
    /\ drift_result.drift_level = "Low"
    /\ result.severity = "Medium"

Routed == call'.op = "route_event"

KnownRoles == {ELDERLY, EMPLOYEE, REHAB}

NonEmployeeLeavesCounters ==
    (Routed /\ call'.ids[1] # EMPLOYEE) => workplace_violations' = workplace_violations

UnknownRoleReturnsRecord ==
    (Routed /\ call'.ids[1] \notin KnownRoles) =>
        /\ result'.domain = "unknown"
        /\ result'.message = "Unknown user role"

\* C17: routing an event for a role other than employee never changes a
\* workplace violation counter, and for a role that is none of elderly,
\* employee, rehab route_event returns the record with domain "unknown"
\* and message "Unknown user role" instead of raising.
C17_NonEmployeeRouting == [][NonEmployeeLeavesCounters /\ UnknownRoleReturnsRecord]_vars

\* the outcome of route_event(role, user_id, ..) with a working sink, for
\* some event and zone
AsWithWorkingSink ==
    \E a \in Activities, fp \in FallProbs, z \in Zones \cup {NoZone} :
        /\ workplace_violations'
             = route_event_count(call'.ids[1], call'.ids[2], a, z)
        /\ result'
             = push_to_firebase(route_event_record(call'.ids[1], call'.ids[2], a, fp, z))

\* C18: when push_to_firebase raises during route_event the call still
\* returns its computed result, and the counters are as after the same
\* call with a working sink.
C18_SinkFailureStillReturns == [][Routed => AsWithWorkingSink]_vars

\* no increment of the user's thread is between its read and its write
Settled(u) == threads[u].pc \notin {"read", "write"}

CountsOwnViolations ==
    \A u \in Users :
        Settled(u) =>
            /\ user_violation_count[u] = threads[u].triggered.ws
            /\ workplace_violations[u] = threads[u].triggered.ce

OthersUntouched ==
    \A v \in Users :
        threads'[v] = threads[v] =>
            /\ user_violation_count'[v] = user_violation_count[v]
            /\ workplace_violations'[v] = workplace_violations[v]

\* C19: when evaluations for two different users are interleaved down to
\* the read and the write of the counter increment, each user's counter
\* equals the number of violations that user's own events triggered, and a
\* step of one user's evaluation never changes another user's counter.
C19_NoCoordinationNeeded == [][OthersUntouched /\ CountsOwnViolations']_vars

C19_Witness ==
    /\ threads["EMP_101"].pc = "idle"
    /\ threads["EMP_101"].triggered.ws = 1
    /\ user_violation_count["EMP_101"] = 1
    /\ threads["EMP_102"].pc = "write"
    /\ threads["EMP_102"].engine = "ws"
    /\ threads["EMP_102"].tmp = 0
    /\ user_violation_count["EMP_102"] = 0

Mentions(alerts, alert) == \E i \in 1..Len(alerts) : alerts[i] = alert

\* C20: in detect_drift the walk-decline rule never fires when baseline
\* walk is 0; the transition rule fires for every current transitions count
\* >= 1 when baseline transitions is 0; the inactivity rule fires for every
\* current static count >= 1 when baseline static is 0; an all-empty
\* baseline against an all-empty current window gives score 0, level Low
\* and the sentinel alert.
C20_ZeroBaseline ==
    call.op = "detect_drift" =>
        /\ baseline.walk = 0 => ~Mentions(result.alerts, WalkAlert)
        /\ (baseline.transitions = 0 /\ current.transitions >= 1)
              => Mentions(result.alerts, TransitionAlert)
        /\ (baseline.static = 0 /\ current.static >= 1)
              => Mentions(result.alerts, InactivityAlert)
        /\ (/\ baseline = [walk |-> 0, transitions |-> 0, static |-> 0]
            /\ current = [walk |-> 0, transitions |-> 0, static |-> 0])
              => /\ result.drift_score = 0
                 /\ result.drift_level = "Low"
                 /\ result.alerts = <<NoDriftAlert>>

C20_Witness ==
    /\ call.op = "detect_drift"
    /\ baseline = [walk |-> 0, transitions |-> 0, static |-> 0]
    /\ current = [walk |-> 0, transitions |-> 1, static |-> 1]
    /\ result.alerts = <<TransitionAlert, InactivityAlert>>

LoggedFor(log, u) == Len(SelectSeq(log, LAMBDA v : v.user_id = u))

RECURSIVE SumCounters(_, _)
SumCounters(count, users) ==
    IF users = {} THEN 0
    ELSE LET u == CHOOSE x \in users : TRUE
         IN count[u] + SumCounters(count, users \ {u})

LogAgreesWithCounters ==
    /\ \A u \in Users : user_violation_count[u] = LoggedFor(violations, u)
    /\ Len(violations) = SumCounters(user_violation_count, Users)

LogOnlyGrows ==
    /\ Len(violations') >= Len(violations)
    /\ SubSeq(violations', 1, Len(violations)) = violations

\* C21: after any sequence of evaluate_event calls every user's counter
\* equals the number of log entries with that user id, the log length
\* equals the sum of the counters, and each call only appends to the log:
\* earlier entries keep their position and content.
C21_LogMatchesCounters == [][LogOnlyGrows /\ LogAgreesWithCounters']_vars

C21_Witness ==
    /\ call.op = "evaluate_event"
    /\ Len(violations) = 3
    /\ user_violation_count["EMP_101"] = 2
    /\ user_violation_count["EMP_102"] = 1
    /\ violations[1].user_id = "EMP_101"
    /\ violations[2].user_id = "EMP_102"
    /\ violations[3].violation_type # violations[1].violation_type

\* C22: handing a record to the sink does not change what the operation
\* returns: the alert returned by generate_alert has, after the sink call,
\* the field values it had before it, the computed timestamp included.
C22_SinkLeavesRecord ==
    Returned =>
        /\ result = generate_alert(ElderUser, risk_history, drift_result)
        /\ result.timestamp = UtcNow

====
